---- MODULE Spec2Model ----
(***************************************************************************)
(* Model of the AI carbon footprint calculator (src/tool.py), a Streamlit  *)
(* script that is re-run from top to bottom on every interaction.          *)
(*                                                                         *)
(* The script computes in Python floats (IEEE 754 binary64).  They are     *)
(* modelled at full width: a float is a record [inf, m, e] standing for    *)
(* m * 2^e, where m is a natural number of at most 53 bits kept as a       *)
(* little-endian sequence of 15-bit limbs (TLC's integers are 32 bits      *)
(* wide), and every operation rounds to nearest, ties to even, with        *)
(* gradual underflow and overflow to infinity.                             *)
(***************************************************************************)
EXTENDS Integers, Sequences, FiniteSets, TLC

(***************************************************************************)
(* Natural numbers of arbitrary size: little-endian limbs, no leading zero *)
(* limb, <<>> is zero.                                                     *)
(***************************************************************************)
Base == 32768
LimbBits == 15

Limb(a, i) == IF i <= Len(a) THEN a[i] ELSE 0

\* the element of a singleton: The({f(v) : v \in {e}}) is f(e), with e computed once
The(S) == CHOOSE x \in S : TRUE

RECURSIVE BNorm(_)
BNorm(a) ==
    IF a = <<>> THEN <<>>
    ELSE IF a[Len(a)] = 0 THEN BNorm(SubSeq(a, 1, Len(a) - 1))
    ELSE a

RECURSIVE BFromInt(_)
BFromInt(n) == IF n = 0 THEN <<>> ELSE <<n % Base>> \o BFromInt(n \div Base)

RECURSIVE BToInt(_)
BToInt(a) == IF a = <<>> THEN 0 ELSE a[1] + Base * BToInt(Tail(a))

RECURSIVE BCmpFrom(_, _, _)
BCmpFrom(a, b, i) ==
    IF i = 0 THEN 0
    ELSE IF a[i] < b[i] THEN -1
    ELSE IF a[i] > b[i] THEN 1
    ELSE BCmpFrom(a, b, i - 1)

BCmp(a, b) ==
    IF Len(a) < Len(b) THEN -1
    ELSE IF Len(a) > Len(b) THEN 1
    ELSE BCmpFrom(a, b, Len(a))

RECURSIVE BAddRec(_, _, _, _)
BAddRec(a, b, i, c) ==
    IF i > Len(a) /\ i > Len(b)
    THEN (IF c = 0 THEN <<>> ELSE <<c>>)
    ELSE LET s == Limb(a, i) + Limb(b, i) + c
         IN  <<s % Base>> \o BAddRec(a, b, i + 1, s \div Base)

BAdd(a, b) == BAddRec(a, b, 1, 0)

RECURSIVE BSubRec(_, _, _, _)
BSubRec(a, b, i, c) ==
    IF i > Len(a) THEN <<>>
    ELSE LET s == a[i] - Limb(b, i) - c
         IN  IF s < 0 THEN <<s + Base>> \o BSubRec(a, b, i + 1, 1)
             ELSE <<s>> \o BSubRec(a, b, i + 1, 0)

\* a - b for a >= b
BSub(a, b) == BNorm(BSubRec(a, b, 1, 0))

RECURSIVE BMulSmallRec(_, _, _, _)
BMulSmallRec(a, k, i, c) ==
    IF i > Len(a) THEN (IF c = 0 THEN <<>> ELSE <<c>>)
    ELSE LET s == a[i] * k + c
         IN  <<s % Base>> \o BMulSmallRec(a, k, i + 1, s \div Base)

\* a * k for 0 <= k < Base
BMulSmall(a, k) == IF k = 0 THEN <<>> ELSE BMulSmallRec(a, k, 1, 0)

ShiftLimbs(a, n) == IF a = <<>> THEN <<>> ELSE [i \in 1..n |-> 0] \o a

RECURSIVE BMul(_, _)
BMul(a, b) ==
    IF b = <<>> THEN <<>>
    ELSE BAdd(BMulSmall(a, b[1]), ShiftLimbs(BMul(a, Tail(b)), 1))

\* a * 2^n
BShl(a, n) == ShiftLimbs(BMulSmall(a, 2 ^ (n % LimbBits)), n \div LimbBits)

RECURSIVE BDivSmallRec(_, _, _, _)
BDivSmallRec(a, k, i, r) ==
    IF i = 0 THEN <<>>
    ELSE LET cur == r * Base + a[i]
         IN  BDivSmallRec(a, k, i - 1, cur % k) \o <<cur \div k>>

\* floor(a / k) for 0 < k <= Base
BDivSmall(a, k) == BNorm(BDivSmallRec(a, k, Len(a), 0))

\* floor(a / 2^n)
BShr(a, n) ==
    IF n \div LimbBits >= Len(a) THEN <<>>
    ELSE BDivSmall(SubSeq(a, n \div LimbBits + 1, Len(a)), 2 ^ (n % LimbBits))

RECURSIVE IntBitLen(_)
IntBitLen(n) == IF n = 0 THEN 0 ELSE 1 + IntBitLen(n \div 2)

BBitLen(a) == IF a = <<>> THEN 0 ELSE LimbBits * (Len(a) - 1) + IntBitLen(a[Len(a)])

BIsOdd(a) == a # <<>> /\ a[1] % 2 = 1

\* the largest q with b * q <= r, counting down from the estimate qhat >= q
RECURSIVE QDigit(_, _, _)
QDigit(r, b, qhat) ==
    IF BCmp(BMulSmall(b, qhat), r) <= 0 THEN qhat ELSE QDigit(r, b, qhat - 1)

\* the first guess at a quotient digit of r by b: never below the digit
QEstimate(r, b) ==
    The({IF est > Base - 1 THEN Base - 1 ELSE est :
         est \in {(Limb(r, Len(b) + 1) * Base + Limb(r, Len(b))) \div b[Len(b)]}})

\* long division of the limbs a[1..i] after the limbs above i gave the quotient
\* limbs q and left the remainder r; the top limb of b is at least Base / 2
RECURSIVE BDivRec(_, _, _, _, _)
BDivRec(a, b, i, q, r) ==
    IF i = 0 THEN [q |-> BNorm(q), r |-> r]
    ELSE The({The({BDivRec(a, b, i - 1, <<qd>> \o q, BSub(cur, BMulSmall(b, qd))) :
                   qd \in {QDigit(cur, b, QEstimate(cur, b))}}) :
              cur \in {BNorm(<<a[i]>> \o r)}})

\* [q |-> floor(a / b), r |-> a - b * q] up to a common scaling of r, for b > 0
BDivMod(a, b) ==
    The({The({BDivRec(an, bn, Len(an), <<>>, <<>>) :
              an \in {BShl(a, s)}, bn \in {BShl(b, s)}}) :
         s \in {LimbBits - IntBitLen(b[Len(b)])}})

(***************************************************************************)
(* IEEE 754 binary64, non-negative values only (the script never produces  *)
(* a negative number or a NaN): [inf, m, e] is m * 2^e.  A finite value is *)
(* canonical: 2^52 <= m < 2^53 and e >= MinExp, or m < 2^52 and e = MinExp.*)
(***************************************************************************)
Precision == 53
MinExp == -1074
MaxExp == 1024

FInf == [inf |-> TRUE, m |-> <<>>, e |-> 0]
FZero == [inf |-> FALSE, m |-> <<>>, e |-> MinExp]

Max(x, y) == IF x >= y THEN x ELSE y

\* m * 2^ex for m < 2^53, or inf when that is 2^1024 or more
FFinite(m, ex) ==
    IF BBitLen(m) + ex > MaxExp THEN FInf ELSE [inf |-> FALSE, m |-> m, e |-> ex]

\* m1 * 2^q for m1 <= 2^53: a carry out of the 53 bits moves the exponent
FPack(m1, q) ==
    IF BBitLen(m1) > Precision THEN FFinite(BShr(m1, 1), q + 1) ELSE FFinite(m1, q)

\* m0 * 2^q rounded up or not: c compares the part cut off with half of 2^q
FRoundUp(m0, c, sticky, q) ==
    IF c > 0 \/ (c = 0 /\ (sticky \/ BIsOdd(m0)))
    THEN The({FPack(m1, q) : m1 \in {BAdd(m0, <<1>>)}})
    ELSE FPack(m0, q)

\* n * 2^(q - shift) as a multiple of 2^q
FRoundTo(n, shift, sticky, q) ==
    IF shift <= 0 THEN The({FPack(m0, q) : m0 \in {BShl(n, -shift)}})
    ELSE The({The({FRoundUp(m0, c, sticky, q) :
                   c \in {BCmp(BSub(n, BShl(m0, shift)), BShl(<<1>>, shift - 1))}}) :
              m0 \in {BShr(n, shift)}})

\* the float nearest to n * 2^e (+ a fraction of 2^e in (0, 1) when sticky),
\* ties to even
FRound(n, e, sticky) ==
    IF n = <<>> THEN FZero
    ELSE The({FRoundTo(n, q - e, sticky, q) :
              q \in {Max(BBitLen(n) + e - Precision, MinExp)}})

\* float(n) for a Python int n >= 0 given by its limbs
FFromBig(n) == FRound(n, 0, FALSE)
FFromInt(n) == FFromBig(BFromInt(n))

FIsZero(x) == ~x.inf /\ x.m = <<>>

\* x * y (0 * inf does not occur: no operand of the script is infinite)
FMul(x, y) ==
    IF x.inf \/ y.inf THEN FInf
    ELSE FRound(BMul(x.m, y.m), x.e + y.e, FALSE)

\* x / y for x, y > 0 finite, from k more bits of x than the quotient needs
FDivBy(x, y, k) ==
    The({FRound(dm.q, x.e - y.e - k, dm.r # <<>>) :
         dm \in {BDivMod(BShl(x.m, k), y.m)}})

\* x / y for y > 0 finite
FDiv(x, y) ==
    IF x.inf THEN FInf
    ELSE IF x.m = <<>> THEN FZero
    ELSE The({FDivBy(x, y, k) : k \in {Precision + 2 + BBitLen(y.m) - BBitLen(x.m)}})

FLess(x, y) ==
    IF x.inf THEN FALSE
    ELSE IF y.inf THEN TRUE
    ELSE IF x.e # y.e THEN x.e < y.e
    ELSE BCmp(x.m, y.m) < 0

FLeq(x, y) == x = y \/ FLess(x, y)

\* int(x) for a finite x >= 0: truncation, as limbs
FToBig(x) == IF x.e >= 0 THEN BShl(x.m, x.e) ELSE BShr(x.m, -x.e)

(***************************************************************************)
(* Python values.  A str is a sequence of one-character strings; an int is *)
(* an integer; a float is a record as above.  CO2_INTENSITY is either, so  *)
(* an int that shares a variable with floats is tagged [int |-> n].        *)
(***************************************************************************)
PyInt(n) == [int |-> n]
IsInt(x) == "int" \in DOMAIN x

\* float(n), and the conversion of an int operand of a float operation
PyFloat(x) == IF IsInt(x) THEN FFromInt(x.int) ELSE x

\* a float literal of the script: the finite float m * 2^e it is compiled to
FLit(m, e) == [inf |-> FALSE, m |-> m, e |-> e]

\* int(x) of a float x
PyTrunc(x) == BToInt(FToBig(x))

\* s.split(sep, 1) for a one-character sep
RECURSIVE Find(_, _, _)
Find(s, c, i) ==
    IF i > Len(s) THEN 0 ELSE IF s[i] = c THEN i ELSE Find(s, c, i + 1)

Split1(s, sep) ==
    LET i == Find(s, sep, 1)
    IN  IF i = 0 THEN <<s>>
        ELSE <<SubSeq(s, 1, i - 1), SubSeq(s, i + 1, Len(s))>>

\* len(s.split()): the number of maximal runs of non-whitespace
Whitespace == {" ", "\n", "\t"}

RECURSIVE CountWords(_, _, _)
CountWords(s, i, inWord) ==
    IF i > Len(s) THEN 0
    ELSE IF s[i] \in Whitespace THEN CountWords(s, i + 1, FALSE)
    ELSE (IF inWord THEN 0 ELSE 1) + CountWords(s, i + 1, TRUE)

SplitLen(s) == CountWords(s, 1, FALSE)

\* d.get(k, default)
DictGet(d, k, default) == IF k \in DOMAIN d THEN d[k] ELSE default

Range(s) == {s[i] : i \in DOMAIN s}

(***************************************************************************)
(* Constants of the script.                                                *)
(***************************************************************************)
CO2_INTENSITY_GLOBAL == 475

\* the numeric literals of lines 101 and 119-185; the int ones as the floats
\* they are converted to when they meet a float
TOKENS_PER_WORD == FLit(<<19661, 6553, 13107, 166>>, -52)   \* 1.3 = 0x1.4cccccccccccdp+0
F1000 == FLit(<<0, 0, 0, 250>>, -43)                        \* 1000 = 0x1.f4p+9
F4042 == FLit(<<0, 0, 20480, 252>>, -41)                    \* 4042 = 0x1.f94p+11
F500 == FLit(<<0, 0, 0, 250>>, -44)                         \* 500 = 0x1.f4p+8
F15 == FLit(<<0, 0, 0, 240>>, -49)                          \* 15 = 0x1.ep+3
GOOGLE_SEARCH_G == FLit(<<6554, 13107, 26214, 204>>, -57)   \* 0.05 = 0x1.999999999999ap-5

\* ENERGY_FACTORS with two digits of the Video factor transposed
ENERGY_FACTORS_transposed ==
    [Text  |-> FLit(<<0, 0, 0, 128>>, -53),
     Image |-> FLit(<<0, 0, 0, 160>>, -50),
     Video |-> FLit(<<7864, 22282, 24903, 235>>, -49)]      \* 14.735 = 0x1.d7851eb851eb8p+3

ENERGY_FACTORS ==
    [Text  |-> FLit(<<0, 0, 0, 128>>, -53),                 \* 0.5 = 0x1p-1
     Image |-> FLit(<<0, 0, 0, 160>>, -50),                 \* 5.0 = 0x1.4p+2
     Video |-> FLit(<<0, 0, 0, 230>>, -49)]                 \* 14.375 = 0x1.ccp+3

\* the flag emoji that starts each entry is written as its two-letter code
eu_countries == <<
    <<"A","T"," ","A","u","s","t","r","i","a">>,
    <<"B","E"," ","B","e","l","g","i","u","m">>,
    <<"B","G"," ","B","u","l","g","a","r","i","a">>,
    <<"H","R"," ","C","r","o","a","t","i","a">>,
    <<"C","Y"," ","C","y","p","r","u","s">>,
    <<"C","Z"," ","C","z","e","c","h"," ","R","e","p","u","b","l","i","c">>,
    <<"D","K"," ","D","e","n","m","a","r","k">>,
    <<"E","E"," ","E","s","t","o","n","i","a">>,
    <<"F","I"," ","F","i","n","l","a","n","d">>,
    <<"F","R"," ","F","r","a","n","c","e">>,
    <<"D","E"," ","G","e","r","m","a","n","y">>,
    <<"G","R"," ","G","r","e","e","c","e">>,
    <<"H","U"," ","H","u","n","g","a","r","y">>,
    <<"I","E"," ","I","r","e","l","a","n","d">>,
    <<"I","T"," ","I","t","a","l","y">>,
    <<"L","V"," ","L","a","t","v","i","a">>,
    <<"L","T"," ","L","i","t","h","u","a","n","i","a">>,
    <<"L","U"," ","L","u","x","e","m","b","o","u","r","g">>,
    <<"M","T"," ","M","a","l","t","a">>,
    <<"N","L"," ","N","e","t","h","e","r","l","a","n","d","s">>,
    <<"P","L"," ","P","o","l","a","n","d">>,
    <<"P","T"," ","P","o","r","t","u","g","a","l">>,
    <<"R","O"," ","R","o","m","a","n","i","a">>,
    <<"S","K"," ","S","l","o","v","a","k","i","a">>,
    <<"S","I"," ","S","l","o","v","e","n","i","a">>,
    <<"E","S"," ","S","p","a","i","n">>,
    <<"S","E"," ","S","w","e","d","e","n">>
>>

country_icon == [country \in Range(eu_countries) |-> Split1(country, " ")[2]]

\* default_intensity as the comment above line 40 describes it
default_intensity_zero == [name \in Range(country_icon) |-> 0]

default_intensity == [name \in Range(country_icon) |-> 366]

workload_options == {"Text", "Image", "Video"}

(***************************************************************************)
(* The script, section by section, as functions of the widget values.      *)
(***************************************************************************)
\* line 45, for the country_name of line 44
co2_default_of(country_name) ==
    DictGet(default_intensity, country_name, CO2_INTENSITY_GLOBAL)

co2_default(sel) == co2_default_of(country_icon[sel])

\* the value the manual-intensity number_input starts from: float(co2_default)
custom_default(sel) == FFromInt(co2_default(sel))

\* CO2_INTENSITY that never takes the manual value
CO2_INTENSITY_of_default(default, override, value) == PyInt(default)

\* CO2_INTENSITY with `if manual_override and value`: a manual 0 is falsy
CO2_INTENSITY_of_truthy(default, override, value) ==
    IF override /\ ~FIsZero(value) THEN value ELSE PyInt(default)

\* lines 52-58; value is the value of the number_input
CO2_INTENSITY_of(default, override, value) ==
    IF override THEN value ELSE PyInt(default)

\* units without the minimum of one token
units_of_nomin(workload_type, prompt, number) ==
    IF workload_type = "Text"
    THEN IF prompt # <<>>
         THEN PyTrunc(FMul(FFromInt(SplitLen(prompt)), TOKENS_PER_WORD))
         ELSE 0
    ELSE IF workload_type = "Image" THEN number
    ELSE IF workload_type = "Video" THEN number
    ELSE 0

\* lines 99-110; number is the value of the workload's number_input
units_of(workload_type, prompt, number) ==
    IF workload_type = "Text"
    THEN IF prompt # <<>>
         THEN Max(1, PyTrunc(FMul(FFromInt(SplitLen(prompt)), TOKENS_PER_WORD)))
         ELSE 0
    ELSE IF workload_type = "Image" THEN number
    ELSE IF workload_type = "Video" THEN number
    ELSE 0

\* line 117 with >= for >
section3_runs_nonneg(units, submit) == units >= 0 /\ submit

\* line 117 without the submit test
section3_runs_unsubmitted(units, submit) == units > 0

\* line 117
section3_runs(units, submit) == units > 0 /\ submit

\* line 118 without the quantity
energy_wh_of_one(units, workload_type) == ENERGY_FACTORS[workload_type]

\* line 118
energy_wh_of(units, workload_type) ==
    FMul(FFromInt(units), ENERGY_FACTORS[workload_type])

\* line 119
energy_kwh_of(energy_wh) == FDiv(energy_wh, F1000)

\* line 120 with the global average for the resolved intensity
emissions_g_of_global(energy_kwh, CO2_INTENSITY) ==
    FMul(energy_kwh, FFromInt(CO2_INTENSITY_GLOBAL))

\* line 120
emissions_g_of(energy_kwh, CO2_INTENSITY) == FMul(energy_kwh, PyFloat(CO2_INTENSITY))

\* lines 181-185
co2_kg_of(emissions_g) == FDiv(emissions_g, F1000)
m_driven_of_4024(co2_kg) == FMul(co2_kg, FLit(<<0, 0, 16384, 251>>, -41))
m_driven_of(co2_kg) == FMul(co2_kg, F4042)
coal_burned_of(co2_kg) == FMul(co2_kg, F500)
google_search_equiv_of(emissions_g) == FDiv(emissions_g, GOOGLE_SEARCH_G)
led_bulb_equiv_of(emissions_g) == FDiv(emissions_g, F15)

(***************************************************************************)
(* Bounds of the model and the inputs it draws.                            *)
(***************************************************************************)
MaxPromptLen == 1      \* characters of a Text prompt typed into the form
MaxNumber == 2         \* largest value entered in a number_input of the form
MaxQuantity == 3       \* quantities -1..MaxQuantity handed to section 3
MaxWords == 10         \* words of a prompt handed to the token count

PromptChars == {"a", " "}

RECURSIVE Strings(_)
Strings(n) ==
    IF n = 0 THEN {<<>>}
    ELSE Strings(n - 1) \cup
         {Append(s, c) : s \in {t \in Strings(n - 1) : Len(t) = n - 1}, c \in PromptChars}

Prompts == Strings(MaxPromptLen)
\* an Image or Video description: left empty or filled in
Descriptions == {<<>>, <<"a">>}

\* k words separated by single spaces
RECURSIVE WordList(_)
WordList(k) ==
    IF k = 0 THEN <<>>
    ELSE IF k = 1 THEN <<"a">>
    ELSE WordList(k - 1) \o <<" ", "b", "c">>

\* whitespace put around the words of a prompt
Paddings == {<< <<>>, <<>> >>, << <<" ">>, <<>> >>, << <<"\n", "\t">>, <<" ">> >>}

\* floats a user may type into the manual-intensity input (min_value = 0.0)
FTiny == FLit(<<1>>, MinExp)                            \* 5e-324, the least float above 0
FTiny2 == FLit(<<2>>, MinExp)                           \* 1e-323, the next one
FOne == FLit(<<0, 0, 0, 128>>, -52)                     \* 1.0
F366_5 == FLit(<<0, 0, 8192, 183>>, -44)                \* 366.5 = 0x1.6e8p+8
FHuge == FLit(<<0, 0, 0, 128>>, 971)                    \* 2^1023
FLargest == FLit(<<32767, 32767, 32767, 255>>, 971)     \* the largest finite float

CustomValues == {FZero, F366_5}

Intensities ==
    {FZero, FTiny, FTiny2, FOne, PyInt(366), F366_5, PyInt(475), FHuge, FLargest}

Quantities == (-1 .. MaxQuantity) \cup {10, 100, 1000}

Norway == <<"N","o","r","w","a","y">>

(***************************************************************************)
(* State: the widget values the browser holds, and the variables of the    *)
(* script after its latest run.  A variable of section 3 is <<>> while the *)
(* name is unbound and <<x>> once x is assigned to it.  `call` holds the   *)
(* arguments of a part of the script applied on its own, `result` what the *)
(* applications so far gave.                                               *)
(***************************************************************************)
VARIABLES
    selected_country,   \* sidebar selectbox "Select Location"
    manual_override,    \* sidebar checkbox
    custom,             \* sidebar number_input, shown while manual_override
    workload_type,      \* radio
    prompt,             \* text_area of the form
    number,             \* number_input of the form (Image, Video)
    submit,             \* form_submit_button: pressed for this run
    units,
    CO2_INTENSITY,
    rendered,           \* the report of lines 122-190 is on the page
    energy_wh,
    energy_kwh,
    emissions_g,
    co2_kg,
    m_driven,
    coal_burned,
    google_search_equiv,
    led_bulb_equiv,
    call,
    result

widgets == <<selected_country, manual_override, custom, workload_type, prompt, number>>

figures == <<energy_wh, energy_kwh, emissions_g, co2_kg, m_driven, coal_burned,
             google_search_equiv, led_bulb_equiv>>

vars == <<widgets, submit, units, CO2_INTENSITY, rendered, figures, call, result>>

NoCall == [fn |-> "none"]

\* min_value of the two number_inputs of the form (lines 104, 107)
number_min == 1

\* lines 117-190 on the values u, s, w, i of units, submit, workload_type and
\* CO2_INTENSITY
Section3(u, s, w, i) ==
    IF section3_runs(u, s)
    THEN /\ energy_wh' = <<energy_wh_of(u, w)>>
         /\ energy_kwh' = <<energy_kwh_of(energy_wh'[1])>>
         /\ emissions_g' = <<emissions_g_of(energy_kwh'[1], i)>>
         /\ rendered' = TRUE
         /\ co2_kg' = <<co2_kg_of(emissions_g'[1])>>
         /\ m_driven' = <<m_driven_of(co2_kg'[1])>>
         /\ coal_burned' = <<coal_burned_of(co2_kg'[1])>>
         /\ google_search_equiv' = <<google_search_equiv_of(emissions_g'[1])>>
         /\ led_bulb_equiv' = <<led_bulb_equiv_of(emissions_g'[1])>>
    ELSE /\ rendered' = FALSE
         /\ energy_wh' = <<>>
         /\ energy_kwh' = <<>>
         /\ emissions_g' = <<>>
         /\ co2_kg' = <<>>
         /\ m_driven' = <<>>
         /\ coal_burned' = <<>>
         /\ google_search_equiv' = <<>>
         /\ led_bulb_equiv' = <<>>

\* one run of the script, top to bottom, on the widget values c, m, v, w, p, n
\* with the submit button pressed or not
Run(c, m, v, w, p, n, s) ==
    /\ selected_country' = c
    /\ manual_override' = m
    /\ custom' = v
    /\ workload_type' = w
    /\ prompt' = p
    /\ number' = n
    /\ submit' = s
    /\ units' = units_of(w, p, n)
    /\ CO2_INTENSITY' = CO2_INTENSITY_of(co2_default(c), m, v)
    /\ Section3(units', s, w, CO2_INTENSITY')
    /\ UNCHANGED <<call, result>>

\* the first run: every widget at its default, the submit button not pressed
PageLoad ==
    /\ selected_country = eu_countries[1]
    /\ manual_override = FALSE
    /\ custom = custom_default(eu_countries[1])
    /\ workload_type = "Text"
    /\ prompt = <<>>
    /\ number = number_min
    /\ submit = FALSE
    /\ units = units_of("Text", <<>>, number_min)
    /\ CO2_INTENSITY = CO2_INTENSITY_of(co2_default(eu_countries[1]), FALSE, custom)
    /\ rendered = FALSE
    /\ energy_wh = <<>>
    /\ energy_kwh = <<>>
    /\ emissions_g = <<>>
    /\ co2_kg = <<>>
    /\ m_driven = <<>>
    /\ coal_burned = <<>>
    /\ google_search_equiv = <<>>
    /\ led_bulb_equiv = <<>>

Init ==
    /\ PageLoad
    /\ call = NoCall
    /\ result = <<>>

\* a widget outside the form changes: the script re-runs, submit is False.
\* The number_input keeps its value unless its default (its identity) changes.
SelectCountry(c) ==
    /\ c # selected_country
    /\ Run(c, manual_override,
           IF custom_default(c) = custom_default(selected_country)
           THEN custom ELSE custom_default(c),
           workload_type, prompt, number, FALSE)

\* ticking the checkbox creates the number_input at its default; unticking drops it
ToggleOverride ==
    Run(selected_country, ~manual_override, custom_default(selected_country),
        workload_type, prompt, number, FALSE)

\* min_value = 0.0: the floats modelled are never negative
SetCustom(v) ==
    /\ manual_override
    /\ v # custom
    /\ Run(selected_country, manual_override, v, workload_type, prompt, number, FALSE)

\* the form shows the widgets of the new workload, at their defaults
SelectWorkload(w) ==
    /\ w # workload_type
    /\ Run(selected_country, manual_override, custom, w, <<>>, number_min, FALSE)

\* the form is submitted with p in its text area and n in its number_input
\* (Text has no number_input)
Submit(p, n) ==
    /\ n >= number_min
    /\ IF workload_type = "Text"
       THEN p \in Prompts /\ n = number_min
       ELSE p \in Descriptions
    /\ Run(selected_country, manual_override, custom, workload_type, p, n, TRUE)

Next ==
    \/ \E c \in Range(eu_countries) : SelectCountry(c)
    \/ ToggleOverride
    \/ \E v \in CustomValues : SetCustom(v)
    \/ \E w \in workload_options : SelectWorkload(w)
    \/ \E p \in Prompts \cup Descriptions, n \in 0..MaxNumber : Submit(p, n)

Spec == Init /\ [][Next]_vars

(***************************************************************************)
(* The parts of the script applied on their own, to arguments the page     *)
(* cannot produce as well: a quantity <= 0 with any workload, a country    *)
(* name that is not a key of default_intensity, the extreme floats.        *)
(***************************************************************************)
\* section 3 applied to (workload, q[1], i[1]) and then to (workload, q[2], i[2]),
\* which differ in at most one of quantity and intensity
EstimateCalls ==
    {[fn |-> "estimate", workload |-> w, q |-> <<x[1], x[3]>>, i |-> <<x[2], x[4]>>] :
        w \in workload_options,
        x \in {y \in Quantities \X Intensities \X Quantities \X Intensities :
                  /\ y[1] <= y[3]
                  /\ FLeq(PyFloat(y[2]), PyFloat(y[4]))
                  /\ y[1] = y[3] \/ y[2] = y[4]}}

\* lines 45-58 applied to a country name and the manual-intensity input,
\* override = <<>> when the checkbox is not ticked
ResolveCalls ==
    {[fn |-> "resolve", country_name |-> name, override |-> o] :
        name \in Range(country_icon) \cup {Norway},
        o \in {<<>>} \cup {<<v>> : v \in Intensities \ {PyInt(366), PyInt(475)}}}

\* lines 99-110 applied to a prompt of `words` words
UnitsCalls ==
    {[fn |-> "units", workload |-> w, words |-> k,
      prompt |-> pad[1] \o WordList(k) \o pad[2], number |-> n] :
        w \in workload_options, k \in 0..MaxWords, pad \in Paddings,
        n \in number_min..MaxNumber}

InitPure ==
    /\ PageLoad
    /\ call \in EstimateCalls \cup ResolveCalls \cup UnitsCalls
    /\ result = <<>>

\* the k-th application of section 3, on a submitted run; its figures are
\* appended to result
ApplyEstimate ==
    /\ call.fn = "estimate"
    /\ Len(result) < 2
    /\ LET k == Len(result) + 1
       IN  /\ Section3(call.q[k], TRUE, call.workload, call.i[k])
           /\ result' = Append(result,
                  [energy_wh |-> energy_wh', energy_kwh |-> energy_kwh',
                   emissions_g |-> emissions_g', co2_kg |-> co2_kg',
                   m_driven |-> m_driven', coal_burned |-> coal_burned',
                   google_search_equiv |-> google_search_equiv',
                   led_bulb_equiv |-> led_bulb_equiv',
                   rendered |-> rendered'])
    /\ UNCHANGED <<widgets, submit, units, CO2_INTENSITY, call>>

ApplyResolve ==
    /\ call.fn = "resolve"
    /\ result = <<>>
    /\ CO2_INTENSITY' =
          CO2_INTENSITY_of(co2_default_of(call.country_name),
                           call.override # <<>>,
                           IF call.override # <<>> THEN call.override[1]
                           ELSE FFromInt(co2_default_of(call.country_name)))
    /\ result' = <<CO2_INTENSITY'>>
    /\ UNCHANGED <<widgets, submit, units, rendered, figures, call>>

ApplyUnits ==
    /\ call.fn = "units"
    /\ result = <<>>
    /\ units' = units_of(call.workload, call.prompt, call.number)
    /\ result' = <<units'>>
    /\ UNCHANGED <<widgets, submit, CO2_INTENSITY, rendered, figures, call>>

NextPure == ApplyEstimate \/ ApplyResolve \/ ApplyUnits

SpecPure == InitPure /\ [][NextPure]_vars

(***************************************************************************)
(* Properties.                                                             *)
(***************************************************************************)
\* the k-th application of section 3 has been made
Estimated(k) == call.fn = "estimate" /\ Len(result) >= k
Resolved == call.fn = "resolve" /\ result # <<>>
Counted == call.fn = "units" /\ result # <<>>

\* the float nearest to num / den, for integers the floats hold exactly
Decimal(num, den) == FDiv(FFromInt(num), FFromInt(den))

\* the factors of the specification, written out independently of the script
EnergyFactorTable ==
    [Text  |-> Decimal(1, 2),
     Image |-> FFromInt(5),
     Video |-> Decimal(14375, 1000)]

FMillion == FFromInt(1000000)
FMillionth == Decimal(1, 1000000)

\* y - x >= 10^-6, exactly, for finite floats x and y
GapAtLeastMillionth(x, y) ==
    LET a   == BShl(BMul(x.m, BFromInt(1000000)), x.e - MinExp)
        b   == BShl(BMul(y.m, BFromInt(1000000)), y.e - MinExp)
        one == BShl(<<1>>, -MinExp)
    IN  BCmp(b, BAdd(a, one)) >= 0

\* the figures r of one application of section 3 hold nothing
NoFigures(r) ==
    /\ ~r.rendered
    /\ \A f \in DOMAIN r \ {"rendered"} : r[f] = <<>>

\* C1: for every workload, every quantity q <= 0 and every intensity, section 3
\* produces no result: no energy, emissions or equivalence figure is computed
\* or rendered.
C1_NoResultForNonPositiveQuantity ==
    \A k \in 1..2 : (Estimated(k) /\ call.q[k] <= 0) => NoFigures(result[k])

C1_Witness ==
    /\ Estimated(2)
    /\ call.workload = "Video" /\ call.q = <<-1, 0>> /\ call.i[1] = FLargest
    /\ NoFigures(result[1]) /\ NoFigures(result[2])

\* r holds the energy and emissions the specification's formulas give for (w, q, i)
EstimateIs(w, q, i, r) ==
    /\ r.rendered
    /\ r.energy_wh = <<FMul(FFromInt(q), EnergyFactorTable[w])>>
    /\ r.energy_kwh = <<FDiv(r.energy_wh[1], FFromInt(1000))>>
    /\ r.emissions_g = <<FMul(r.energy_kwh[1], PyFloat(i))>>

EstimateFormulas ==
    \A k \in 1..2 :
        (Estimated(k) /\ call.q[k] > 0) =>
            EstimateIs(call.workload, call.q[k], call.i[k], result[k])

\* Video, 10 seconds, 366 g/kWh gives 143.75 Wh, 0.14375 kWh and emissions g
VideoExample(g) ==
    \A k \in 1..2 :
        (/\ Estimated(k)
         /\ call.workload = "Video" /\ call.q[k] = 10 /\ call.i[k] = PyInt(366)) =>
            /\ result[k].energy_wh = <<Decimal(14375, 100)>>
            /\ result[k].energy_kwh = <<Decimal(14375, 100000)>>
            /\ result[k].emissions_g = <<g>>

\* C2 as stated: energyWh = q * factor(w), energyKWh = energyWh / 1000,
\* emissionsG = energyKWh * i for q > 0, and the Video example gives 52.5825 g.
C2_Original == EstimateFormulas /\ VideoExample(Decimal(525825, 10000))

\* C2 as amended: for q > 0, energyWh = q * factor(w) with factor Text = 0.5,
\* Image = 5.0, Video = 14.375, energyKWh = energyWh / 1000 and
\* emissionsG = energyKWh * i; Video, q = 10, i = 366 gives 143.75 Wh,
\* 0.14375 kWh and 52.6125 g.
C2_EnergyAndEmissions == EstimateFormulas /\ VideoExample(Decimal(526125, 10000))

C2_Witness ==
    /\ Estimated(1)
    /\ call.workload = "Video" /\ call.q[1] = 10 /\ call.i[1] = PyInt(366)
    /\ result[1].emissions_g = <<Decimal(526125, 10000)>>

\* C3: with an override present, the intensity resolved is the override,
\* unchanged, whatever the country and its default.
C3_OverrideReturnedUnchanged ==
    (Resolved /\ call.override # <<>>) => result[1] = call.override[1]

C3_Witness ==
    /\ Resolved
    /\ call.country_name = country_icon[eu_countries[11]]
    /\ call.override = <<Decimal(3665, 10)>>
    /\ result[1] = Decimal(3665, 10)

C5_EquivalenceRatios ==
    rendered =>
        /\ google_search_equiv = <<FDiv(emissions_g[1], Decimal(5, 100))>>
        /\ led_bulb_equiv = <<FDiv(emissions_g[1], FFromInt(15))>>
        /\ m_driven = <<FMul(FDiv(emissions_g[1], FFromInt(1000)), FFromInt(4042))>>
        /\ coal_burned = <<FMul(FDiv(emissions_g[1], FFromInt(1000)), FFromInt(500))>>

C5_Witness ==
    /\ rendered
    /\ workload_type = "Image"
    /\ CO2_INTENSITY = Decimal(3665, 10)
    /\ FLess(FZero, m_driven[1])
    /\ FLess(led_bulb_equiv[1], google_search_equiv[1])

\* two results for the same workload and intensity, quantities 0 < q[1] < q[2]
QuantityPair ==
    /\ Estimated(2)
    /\ call.i[1] = call.i[2]
    /\ 0 < call.q[1] /\ call.q[1] < call.q[2]

\* C6 as stated: for every intensity i >= 0 and quantities 0 < q1 < q2,
\* emissionsG(w, q1, i) < emissionsG(w, q2, i).
C6_Original ==
    QuantityPair => FLess(result[1].emissions_g[1], result[2].emissions_g[1])

\* C6 as amended: emissionsG(w, q1, i) <= emissionsG(w, q2, i) for every i >= 0
\* and 0 < q1 < q2, strictly when 10^-6 <= i <= 10^6 and q2 <= 10^9; at i = 0
\* both are 0.
C6_MonotoneInQuantity ==
    QuantityPair =>
        /\ FLeq(result[1].emissions_g[1], result[2].emissions_g[1])
        /\ (/\ FLeq(FMillionth, PyFloat(call.i[1]))
            /\ FLeq(PyFloat(call.i[1]), FMillion)
            /\ call.q[2] <= 1000000000)
              => FLess(result[1].emissions_g[1], result[2].emissions_g[1])
        /\ PyFloat(call.i[1]) = FZero =>
              (result[1].emissions_g = <<FZero>> /\ result[2].emissions_g = <<FZero>>)

C6_Witness ==
    /\ QuantityPair
    /\ call.workload = "Text" /\ call.q = <<2, 3>> /\ call.i[1] = PyInt(366)
    /\ FLess(result[1].emissions_g[1], result[2].emissions_g[1])

\* two results for the same workload and quantity q > 0, intensities i[1] < i[2]
IntensityPair ==
    /\ Estimated(2)
    /\ call.q[1] = call.q[2] /\ call.q[1] > 0
    /\ FLess(PyFloat(call.i[1]), PyFloat(call.i[2]))

\* C7 as stated: for every quantity q > 0 and intensities 0 <= i1 < i2,
\* emissionsG(w, q, i1) < emissionsG(w, q, i2).
C7_Original ==
    IntensityPair => FLess(result[1].emissions_g[1], result[2].emissions_g[1])

\* C7 as amended: emissionsG(w, q, i1) <= emissionsG(w, q, i2) for every q > 0
\* and 0 <= i1 < i2, strictly when q <= 10^9, i2 <= 10^6 and i2 - i1 >= 10^-6.
C7_MonotoneInIntensity ==
    IntensityPair =>
        /\ FLeq(result[1].emissions_g[1], result[2].emissions_g[1])
        /\ (/\ call.q[1] <= 1000000000
            /\ FLeq(PyFloat(call.i[2]), FMillion)
            /\ GapAtLeastMillionth(PyFloat(call.i[1]), PyFloat(call.i[2])))
              => FLess(result[1].emissions_g[1], result[2].emissions_g[1])

C7_Witness ==
    /\ IntensityPair
    /\ call.workload = "Image" /\ call.q[1] = 3
    /\ call.i = <<PyInt(366), Decimal(3665, 10)>>
    /\ FLess(result[1].emissions_g[1], result[2].emissions_g[1])

\* C8: an override of 0 is accepted: with it the intensity is 0 for any country,
\* and a run that reaches section 3 still reports, with emissionsG = 0 and
\* energyWh > 0.
C8_ZeroOverride ==
    (manual_override /\ custom = FZero) =>
        /\ CO2_INTENSITY = FZero
        /\ (submit /\ units > 0) =>
              /\ rendered
              /\ emissions_g = <<FZero>>
              /\ FLess(FZero, energy_wh[1])

C8_Witness ==
    /\ manual_override /\ custom = FZero
    /\ selected_country = eu_countries[27]
    /\ submit /\ units > 0
    /\ rendered
    /\ emissions_g = <<FZero>>

\* C9: for Text the quantity is 0 for the empty prompt and otherwise
\* max(1, floor(wordCount * 1.3)); so it is 0 exactly when the prompt is empty,
\* and a prompt of whitespace only gives 1.
C9_TokenCount ==
    (Counted /\ call.workload = "Text") =>
        /\ result[1] = IF call.prompt = <<>> THEN 0
                       ELSE Max(1, (13 * call.words) \div 10)
        /\ result[1] = 0 <=> call.prompt = <<>>
        /\ (call.prompt # <<>> /\ call.words = 0) => result[1] = 1

C9_Witness ==
    /\ Counted
    /\ call.workload = "Text"
    /\ call.prompt = <<" ">>
    /\ result[1] = 1

\* C10: a run renders a report if and only if submit was pressed in that run and
\* the quantity is > 0; a submit with Image or Video always renders one, a
\* submit with Text renders one exactly when the prompt is non-empty; the
\* factor table is only looked up with one of its keys.
C10_ReportIffSubmittedAndPositive ==
    /\ rendered <=> (submit /\ units > 0)
    /\ rendered <=> energy_wh # <<>>
    /\ (submit /\ workload_type \in {"Image", "Video"}) => rendered
    /\ (submit /\ workload_type = "Text") => (rendered <=> prompt # <<>>)
    /\ rendered => workload_type \in DOMAIN ENERGY_FACTORS

C10_Witness ==
    /\ submit
    /\ workload_type = "Text"
    /\ prompt = <<" ">>
    /\ rendered

====
